---- MODULE Spec2Model ----
(***************************************************************************)
(* Model of SummarizationThread.run (src/gui.py): the admission of audio   *)
(* files (pass-through, split into chunks, merge), the transcription loop, *)
(* the summarization, the exception handler and the cleanup of temporary   *)
(* files, and the window's handlers that start a run and receive its      *)
(* result.  One action per straight-line step of run(); every call that can *)
(* raise is a nondeterministic choice between returning and raising.       *)
(***************************************************************************)
EXTENDS Integers, Sequences, FiniteSets, TLC

\* ------------------------------------------------------------------ bounds
MaxFiles == 3       \* files selected in one batch
MaxDur == 10        \* duration of the single source, in pydub time units
MaxSixths == 16     \* single-file sizes go up to MaxSixths/6 of the limit
MaxThreads == 2     \* threads one window starts

\* --------------------------------------------------------------- constants
WHISPER_API_LIMIT_BYTES == 24 * 1024 * 1024

\* Sizes tried for a single selected file: below, at and above the limit, in
\* several ratios to it.
SingleSizes ==
    {1, WHISPER_API_LIMIT_BYTES - 1, WHISPER_API_LIMIT_BYTES + 1}
        \cup {(k * WHISPER_API_LIMIT_BYTES) \div 6 : k \in 1..MaxSixths}

\* Sizes tried for each file of a batch: the batch branch only compares a size
\* with the limit and sums the sizes.
MultiSizes ==
    {1, WHISPER_API_LIMIT_BYTES \div 3, WHISPER_API_LIMIT_BYTES - 1,
     WHISPER_API_LIMIT_BYTES, WHISPER_API_LIMIT_BYTES + 1}

VARIABLES
    audio_file_paths,       \* self.audio_file_paths, in the caller's order
    sizes,                  \* os.path.getsize of each input, by position
    contents,               \* the bytes of each input, by position (an identifier)
    src_duration,           \* len(AudioSegment.from_file(input 1))
    merge_audio,            \* self.merge_audio
    transcription_only,     \* self.transcription_only
    openai_api_key,         \* self.openai_api_key is non-empty
    gemini_api_key,         \* self.gemini_api_key is non-empty
    pc,                     \* position in run()
    exc,                    \* the exception run() caught, "" while there is none
    file_name_for_error,
    files_to_process,
    temp_files_to_clean,    \* self.temp_files_to_clean (paths of the temp objects)
    file_size,
    duration_ms,
    chunk_duration_ms,
    start_ms,
    total_size,
    index,                  \* loop variable of the loop run() is in
    cleaned,                \* entries of temp_files_to_clean the cleanup has visited
    combined_transcriptions,
    temp_transcription_file,
    tmp_created,            \* temporary audio files created so far, in order
    tmp_content,            \* what was exported into each of them
    fs,                     \* files that exist: the inputs and the live temp files
    remove_log,             \* os.remove calls of the cleanup: <<path, succeeded>>
    whisper_calls,          \* units submitted to the transcription service
    gemini_calls,           \* summarization requests made
    progress,               \* values emitted on progress_update
    error_occurred,         \* file-name arguments emitted on error_occurred
    summary_finished,       \* number of summary_finished emissions
    transcription_finished  \* <<separator?, name, text>> emitted per unit

\* The window (AudioSummaryApp) and the threads it has started.
VARIABLES
    app,                          \* "running", or "aborted" by Qt
    process_button,               \* process_button.isEnabled()
    app_audio_file_paths,         \* AudioSummaryApp.audio_file_paths
    app_openai_api_key,           \* AudioSummaryApp.openai_api_key is set
    app_gemini_api_key,           \* AudioSummaryApp.gemini_api_key is set
    transcription_only_checkbox,  \* transcription_only_checkbox.isChecked()
    summarization_thread,         \* the thread the window refers to, 0 for None
    thread_state,                 \* per thread: "unborn", "running", "returned"
    pending                       \* signals queued for the window: <<signal, thread>>

window == <<app, process_button, app_audio_file_paths, app_openai_api_key,
            app_gemini_api_key, transcription_only_checkbox,
            summarization_thread, thread_state, pending>>

inputs == <<audio_file_paths, sizes, contents, src_duration, merge_audio,
            transcription_only, openai_api_key, gemini_api_key>>
locals == <<file_name_for_error, files_to_process, temp_files_to_clean,
            file_size, duration_ms, chunk_duration_ms, start_ms, total_size,
            index, cleaned, combined_transcriptions, temp_transcription_file>>
env == <<tmp_created, tmp_content, fs, remove_log, whisper_calls, gemini_calls>>
signals == <<progress, error_occurred, summary_finished,
             transcription_finished>>
vars == <<window, inputs, pc, exc, locals, env, signals>>

\* ------------------------------------------------------------ pure helpers
\* A path is <<directory, name of the file>>, a name <<kind, number>>: the
\* inputs of one selection share a directory, temporary files get fresh names.
UserPath(i) == <<"home", <<"input", i>>>>
TempPath(k) == <<"tmpdir", <<"tmp", k>>>>

\* os.path.basename: the directory is dropped.
basename(path) == path[2]

IsTemp(path) == path[1] = "tmpdir"

\* Mutant of ChunkDuration: a zero chunk duration is clamped to one unit.
ChunkDurationAtLeastOne(d, s) ==
    IF (d * WHISPER_API_LIMIT_BYTES) \div s = 0 THEN 1
    ELSE (d * WHISPER_API_LIMIT_BYTES) \div s

\* Mutant of ChunkDuration: the quotient is rounded up instead of down.
ChunkDurationCeil(d, s) == ((d * WHISPER_API_LIMIT_BYTES) + s - 1) \div s

\* math.floor((duration_ms * WHISPER_API_LIMIT_BYTES) / file_size); the
\* quotient is exact in floating point for the magnitudes modelled.
ChunkDuration(d, s) == (d * WHISPER_API_LIMIT_BYTES) \div s

\* Mutant of RangeStarts: the short final chunk is dropped.
RangeStartsNoTail(d, t) == {x \in 0..d : x + t <= d /\ x % t = 0}

\* The values of range(0, d, t) for t > 0.
RangeStarts(d, t) == {x \in 0..d : x < d /\ x % t = 0}

\* Mutant of Slice: the end of the slice is not clamped.
SliceUnclamped(d, from, to) == <<from, to>>

\* audio[start_ms:end_ms]: a slice is clamped to the length of the audio.
Slice(d, from, to) == <<from, IF to > d THEN d ELSE to>>

\* Mutant of LoopProgress: the division by the number of units is lost.
LoopProgressNoDivision(num_files, i) == 25 + (55 * i)

\* 25 + int((55 / num_files) * index)
LoopProgress(num_files, i) == 25 + ((55 * i) \div num_files)

\* size < WHISPER_API_LIMIT_BYTES: the single file is processed as is.
SingleFits(s) == s < WHISPER_API_LIMIT_BYTES

\* Mutant of Oversized: the check of the size of a batch file is lost.
OversizedNever(s) == FALSE

\* size > WHISPER_API_LIMIT_BYTES: a file of a batch is rejected.
Oversized(s) == s > WHISPER_API_LIMIT_BYTES

\* Mutant of MergeEligible: a total equal to the limit is merged too.
MergeEligibleAtMost(total, merge) == total <= WHISPER_API_LIMIT_BYTES /\ merge

\* total_size < WHISPER_API_LIMIT_BYTES and self.merge_audio
MergeEligible(total, merge) == total < WHISPER_API_LIMIT_BYTES /\ merge

\* ---------------------------------------------------------------- initial
\* L68-89: the fields and locals of a thread that has not run a step.
Fresh ==
    /\ exc = ""
    /\ file_name_for_error = <<"audio files", 0>>
    /\ files_to_process = <<>>
    /\ temp_files_to_clean = <<>>
    /\ file_size = 0
    /\ duration_ms = 0
    /\ chunk_duration_ms = 0
    /\ start_ms = 0
    /\ total_size = 0
    /\ index = 0
    /\ cleaned = 0
    /\ combined_transcriptions = <<>>
    /\ temp_transcription_file = FALSE
    /\ tmp_created = <<>>
    /\ tmp_content = <<>>
    /\ fs = {audio_file_paths[i] : i \in 1..Len(audio_file_paths)}
    /\ remove_log = <<>>
    /\ whisper_calls = <<>>
    /\ gemini_calls = 0
    /\ progress = <<>>
    /\ error_occurred = <<>>
    /\ summary_finished = 0
    /\ transcription_finished = <<>>
\* The state of a SummarizationThread after __init__, before run().
RunStart ==
    /\ pc = "start"
    /\ Fresh

\* L651-720: the window right after start_processing started the thread whose
\* run() the variables above follow.
Started ==
    /\ app = "running"
    /\ process_button = FALSE
    /\ app_audio_file_paths = audio_file_paths
    /\ app_openai_api_key = openai_api_key
    /\ app_gemini_api_key = gemini_api_key
    /\ transcription_only_checkbox = transcription_only
    /\ summarization_thread = 1
    /\ thread_state = [t \in 1..MaxThreads |-> IF t = 1 THEN "running" ELSE "unborn"]
    /\ pending = <<>>

\* The options start_processing passes on: the OpenAI key is set, and the
\* Gemini key is set unless transcription_only.
Options ==
    /\ merge_audio \in BOOLEAN
    /\ transcription_only \in BOOLEAN
    /\ openai_api_key = TRUE
    /\ gemini_api_key \in BOOLEAN
    /\ gemini_api_key \/ transcription_only

\* Files that all differ in content.
Init ==
    /\ \E n \in 1..MaxFiles :
        /\ audio_file_paths = [i \in 1..n |-> UserPath(i)]
        /\ sizes \in IF n = 1 THEN [1..n -> SingleSizes] ELSE [1..n -> MultiSizes]
        /\ contents = [i \in 1..n |-> i]
    /\ src_duration \in IF Len(audio_file_paths) = 1 THEN 0..MaxDur ELSE {1}
    /\ Options
    /\ RunStart
    /\ Started

\* Files that may be copies of one another (equal bytes, hence equal sizes),
\* over fewer sizes and durations.
InitCopies ==
    /\ \E n \in 1..MaxFiles :
        /\ audio_file_paths = [i \in 1..n |-> UserPath(i)]
        /\ sizes \in IF n = 1
                     THEN [1..n -> {1, 2 * WHISPER_API_LIMIT_BYTES}]
                     ELSE [1..n -> {1, WHISPER_API_LIMIT_BYTES \div 3,
                                    WHISPER_API_LIMIT_BYTES + 1}]
        /\ contents \in [1..n -> 1..2]
        /\ \A i, j \in 1..n : contents[i] = contents[j] => sizes[i] = sizes[j]
    /\ src_duration \in IF Len(audio_file_paths) = 1 THEN {0, 3} ELSE {1}
    /\ Options
    /\ RunStart
    /\ Started

\* Mutant of ScanStep: an oversized file is skipped (continue) instead of
\* rejecting the batch.
ScanStepSkipOversized(total, s) ==
    [raises |-> FALSE, total |-> IF Oversized(s) THEN total ELSE total + s]

\* The body of the scan loop: raise for an oversized file, else accumulate.
ScanStep(total, s) ==
    IF Oversized(s) THEN [raises |-> TRUE, total |-> total]
    ELSE [raises |-> FALSE, total |-> total + s]

\* ---------------------------------------------------------------- actions
Emit(v) == progress' = Append(progress, v)

Goto(label) == pc' = label /\ UNCHANGED exc

\* An exception propagates to the handler of run().
Raise(e) == pc' = "except" /\ exc' = e

\* tempfile.NamedTemporaryFile(suffix=".mp3", delete=False): a fresh file.
NewTemp == TempPath(Len(tmp_created) + 1)

\* L94-104: the key checks, the clients, progress 10.
InitClients ==
    /\ pc = "start"
    /\ IF ~openai_api_key \/ (~gemini_api_key /\ ~transcription_only)
       THEN Raise("ValueError: API key is not set") /\ UNCHANGED progress
       ELSE Emit(10) /\ Goto("plan")
    /\ UNCHANGED <<window, inputs, locals, env, error_occurred, summary_finished,
                   transcription_finished>>

\* L110-123: one file selected; its size decides between pass-through and split.
SingleStat ==
    /\ pc = "plan"
    /\ Len(audio_file_paths) = 1
    /\ \E getsize_raises \in BOOLEAN :
        IF getsize_raises
        THEN Raise("OSError: getsize") /\ UNCHANGED <<file_size, files_to_process, progress>>
        ELSE
            /\ file_size' = sizes[1]
            /\ IF SingleFits(sizes[1])
               THEN /\ files_to_process' = Append(files_to_process, audio_file_paths[1])
                    /\ Goto("emit25")
                    /\ UNCHANGED progress
               ELSE /\ Emit(15)
                    /\ Goto("load")
                    /\ UNCHANGED files_to_process
    /\ UNCHANGED <<window, inputs, file_name_for_error, temp_files_to_clean, duration_ms,
                   chunk_duration_ms, start_ms, total_size, index, cleaned,
                   combined_transcriptions, temp_transcription_file, env,
                   error_occurred, summary_finished, transcription_finished>>

\* L124-132: decode the source, compute the chunk duration, build the range
\* (range() raises ValueError on a step of zero).
LoadAudio ==
    /\ pc = "load"
    /\ \E from_file_raises \in BOOLEAN :
        IF from_file_raises
        THEN Raise("from_file failed") /\ UNCHANGED <<duration_ms, chunk_duration_ms, start_ms>>
        ELSE
            /\ duration_ms' = src_duration
            /\ chunk_duration_ms' = ChunkDuration(src_duration, file_size)
            /\ start_ms' = 0
            /\ IF chunk_duration_ms' = 0
               THEN Raise("ValueError: range() arg 3 must not be zero")
               ELSE Goto(IF 0 \in RangeStarts(duration_ms', chunk_duration_ms')
                         THEN "split" ELSE "emit25")
    /\ UNCHANGED <<window, inputs, file_name_for_error, files_to_process,
                   temp_files_to_clean, file_size, total_size, index, cleaned,
                   combined_transcriptions, temp_transcription_file, env, signals>>

\* L131-146: one iteration of the split loop: slice, create the temporary file,
\* export into it, then record it.
SplitChunk ==
    /\ pc = "split"
    /\ start_ms \in RangeStarts(duration_ms, chunk_duration_ms)
    /\ \E outcome \in {"ok", "mktemp_raises", "export_raises"} :
        /\ IF outcome = "mktemp_raises"
           THEN UNCHANGED <<tmp_created, tmp_content, fs>>
           ELSE /\ tmp_created' = Append(tmp_created, NewTemp)
                /\ tmp_content' = Append(tmp_content,
                       IF outcome = "ok"
                       THEN <<"chunk", Slice(duration_ms, start_ms,
                                             start_ms + chunk_duration_ms)>>
                       ELSE <<"partial", <<>>>>)
                /\ fs' = fs \cup {NewTemp}
        /\ IF outcome = "ok"
           THEN /\ files_to_process' = Append(files_to_process, NewTemp)
                /\ temp_files_to_clean' = Append(temp_files_to_clean, NewTemp)
                /\ start_ms' = start_ms + chunk_duration_ms
                /\ Goto(IF start_ms' \in RangeStarts(duration_ms, chunk_duration_ms)
                        THEN "split" ELSE "emit25")
           ELSE /\ Raise(outcome)
                /\ UNCHANGED <<files_to_process, temp_files_to_clean, start_ms>>
    /\ UNCHANGED <<window, inputs, file_name_for_error, file_size, duration_ms,
                   chunk_duration_ms, total_size, index, cleaned,
                   combined_transcriptions, temp_transcription_file, remove_log,
                   whisper_calls, gemini_calls, signals>>

\* L149-157: one iteration of the size scan of a batch: an oversized file
\* rejects the batch, any other size is added to the total.
ScanSize ==
    /\ pc = "plan"
    /\ Len(audio_file_paths) > 1
    /\ index < Len(audio_file_paths)
    /\ \E getsize_raises \in BOOLEAN :
        LET step == ScanStep(total_size, sizes[index + 1]) IN
        IF getsize_raises \/ step.raises
        THEN /\ Raise(IF getsize_raises THEN "OSError: getsize"
                      ELSE "ValueError: file is larger than 25MB")
             /\ UNCHANGED <<total_size, index>>
        ELSE /\ total_size' = step.total
             /\ index' = index + 1
             /\ Goto(IF index' < Len(audio_file_paths) THEN "plan" ELSE "decide")
    /\ UNCHANGED <<window, inputs, file_name_for_error, files_to_process,
                   temp_files_to_clean, file_size, duration_ms, chunk_duration_ms,
                   start_ms, cleaned, combined_transcriptions,
                   temp_transcription_file, env, signals>>

\* L159-163 and L179-188: merge, or process the inputs one by one.
DecideMerge ==
    /\ pc = "decide"
    /\ IF MergeEligible(total_size, merge_audio)
       THEN Emit(20) /\ Goto("merge") /\ UNCHANGED files_to_process
       ELSE /\ files_to_process' = audio_file_paths
            /\ Goto("emit25")
            /\ UNCHANGED progress
    /\ UNCHANGED <<window, inputs, file_name_for_error, temp_files_to_clean, file_size,
                   duration_ms, chunk_duration_ms, start_ms, total_size, index,
                   cleaned, combined_transcriptions, temp_transcription_file, env,
                   error_occurred, summary_finished, transcription_finished>>

\* L164-178: concatenate the inputs in order, create the temporary file, export
\* into it, then record it.
MergeFiles ==
    /\ pc = "merge"
    /\ \E outcome \in {"ok", "from_file_raises", "mktemp_raises", "export_raises"} :
        /\ IF outcome \in {"from_file_raises", "mktemp_raises"}
           THEN UNCHANGED <<tmp_created, tmp_content, fs>>
           ELSE /\ tmp_created' = Append(tmp_created, NewTemp)
                /\ tmp_content' = Append(tmp_content,
                       IF outcome = "ok"
                       THEN <<"merged", audio_file_paths>>
                       ELSE <<"partial", <<>>>>)
                /\ fs' = fs \cup {NewTemp}
        /\ IF outcome = "ok"
           THEN /\ files_to_process' = Append(files_to_process, NewTemp)
                /\ temp_files_to_clean' = Append(temp_files_to_clean, NewTemp)
                /\ Goto("emit25")
           ELSE /\ Raise(outcome)
                /\ UNCHANGED <<files_to_process, temp_files_to_clean>>
    /\ UNCHANGED <<window, inputs, file_name_for_error, file_size, duration_ms,
                   chunk_duration_ms, start_ms, total_size, index, cleaned,
                   combined_transcriptions, temp_transcription_file, remove_log,
                   whisper_calls, gemini_calls, signals>>

\* L190-194: progress 25, the transcription loop starts.
StartLoop ==
    /\ pc = "emit25"
    /\ Emit(25)
    /\ index' = 0
    /\ combined_transcriptions' = <<>>
    /\ Goto("loop")
    /\ UNCHANGED <<window, inputs, file_name_for_error, files_to_process,
                   temp_files_to_clean, file_size, duration_ms, chunk_duration_ms,
                   start_ms, total_size, cleaned, temp_transcription_file, env,
                   error_occurred, summary_finished, transcription_finished>>

\* The units u and v hold the same bytes: two inputs with equal contents; a
\* temporary file is a fresh encoding, equal only to itself.
SameBytes(u, v) ==
    IF IsTemp(u) \/ IsTemp(v) THEN u = v
    ELSE contents[u[2][2]] = contents[v[2][2]]

\* L215-219: transcriptions.create(file=...) sends the unit's bytes.
Submit(calls, unit) == Append(calls, unit)

\* Mutant of UnitAt: the units are taken from the end of the list.
UnitAtReversed(files, i) == files[Len(files) - i]

\* L195: enumerate(files_to_process) pairs index i with the (i+1)-th unit.
UnitAt(files, i) == files[i + 1]

\* Mutant of FailUnit: the failure of a unit is caught inside the loop, which
\* goes on with the next unit.
FailUnitContinue == index' = index + 1 /\ UNCHANGED pc

\* L203-219: an exception of open() or of the transcription request is not
\* caught in the loop: it leaves the loop for the handler of run().
FailUnit == pc' = "except" /\ UNCHANGED index

\* L195-236: one iteration of the transcription loop. The text the service
\* returns for a unit is identified with the unit.
TranscribeUnit ==
    /\ pc = "loop"
    /\ index < Len(files_to_process)
    /\ LET unit == UnitAt(files_to_process, index) IN
        /\ file_name_for_error' = basename(unit)
        /\ Emit(LoopProgress(Len(files_to_process), index))
        /\ \E outcome \in {"ok", "open_raises", "create_raises"} :
            /\ whisper_calls' = IF outcome = "open_raises" THEN whisper_calls
                                ELSE Submit(whisper_calls, unit)
            /\ IF outcome = "ok"
               THEN /\ combined_transcriptions' = Append(combined_transcriptions, unit)
                    /\ transcription_finished' = Append(transcription_finished,
                           <<index > 0, basename(unit), unit>>)
                    /\ index' = index + 1
                    /\ UNCHANGED <<pc, exc>>
               ELSE /\ exc' = outcome
                    /\ FailUnit
                    /\ UNCHANGED <<combined_transcriptions, transcription_finished>>
    /\ UNCHANGED <<window, inputs, files_to_process, temp_files_to_clean, file_size,
                   duration_ms, chunk_duration_ms, start_ms, total_size, cleaned,
                   temp_transcription_file, tmp_created, tmp_content, fs,
                   remove_log, gemini_calls, error_occurred, summary_finished>>

\* L238-256: join the texts, progress 80, save the transcription to a temporary
\* text file (a failure to save is logged and absorbed).
FinishTranscription ==
    /\ pc = "loop"
    /\ index = Len(files_to_process)
    /\ Emit(80)
    /\ temp_transcription_file' \in BOOLEAN
    /\ Goto("summarize")
    /\ UNCHANGED <<window, inputs, file_name_for_error, files_to_process,
                   temp_files_to_clean, file_size, duration_ms, chunk_duration_ms,
                   start_ms, total_size, index, cleaned, combined_transcriptions,
                   env, error_occurred, summary_finished, transcription_finished>>

\* L258-280: the summarization request unless transcription_only, the result,
\* progress 100.
Summarize ==
    /\ pc = "summarize"
    /\ IF transcription_only
       THEN /\ summary_finished' = summary_finished + 1
            /\ progress' = progress \o <<100>>
            /\ Goto("finally")
            /\ UNCHANGED gemini_calls
       ELSE /\ gemini_calls' = gemini_calls + 1
            /\ \E generate_content_raises \in BOOLEAN :
                IF generate_content_raises
                THEN Raise("generate_content failed")
                     /\ UNCHANGED <<summary_finished, progress>>
                ELSE /\ summary_finished' = summary_finished + 1
                     /\ progress' = progress \o <<90, 100>>
                     /\ Goto("finally")
    /\ UNCHANGED <<window, inputs, locals, tmp_created, tmp_content, fs, remove_log,
                   whisper_calls, error_occurred, transcription_finished>>

\* Mutant of HandleException: the cleanup is only on the path without error.
HandleExceptionNoCleanup ==
    /\ pc = "except"
    /\ error_occurred' = Append(error_occurred, file_name_for_error)
    /\ Emit(0)
    /\ Goto("done")
    /\ UNCHANGED <<window, inputs, locals, env, summary_finished, transcription_finished>>

\* L282-286: the handler reports the error, then resets the progress.
HandleException ==
    /\ pc = "except"
    /\ error_occurred' = Append(error_occurred, file_name_for_error)
    /\ Emit(0)
    /\ Goto("finally")
    /\ UNCHANGED <<window, inputs, locals, env, summary_finished, transcription_finished>>

\* Mutant of CleanupList: the cleanup walks the units instead of the temporary
\* files.
CleanupListUnits == files_to_process

\* L289: the list the cleanup loop walks.
CleanupList == temp_files_to_clean

\* Mutant of CleanupStep: OSError is not caught in the loop and ends run().
CleanupStepNoCatch ==
    /\ pc = "finally"
    /\ cleaned < Len(CleanupList)
    /\ LET path == CleanupList[cleaned + 1] IN
        \E remove_raises \in BOOLEAN :
            LET ok == path \in fs /\ ~remove_raises IN
            /\ fs' = IF ok THEN fs \ {path} ELSE fs
            /\ remove_log' = Append(remove_log, <<path, ok>>)
            /\ pc' = IF ok THEN pc ELSE "crashed"
    /\ cleaned' = cleaned + 1
    /\ UNCHANGED <<window, inputs, exc, file_name_for_error, files_to_process,
                   temp_files_to_clean, file_size, duration_ms, chunk_duration_ms,
                   start_ms, total_size, index, combined_transcriptions,
                   temp_transcription_file, tmp_created, tmp_content,
                   whisper_calls, gemini_calls, signals>>

\* L289-294: one iteration of the cleanup loop; os.remove raises OSError for a
\* file that is gone, and may raise it for one that exists.
CleanupStep ==
    /\ pc = "finally"
    /\ cleaned < Len(CleanupList)
    /\ LET path == CleanupList[cleaned + 1] IN
        \E remove_raises \in BOOLEAN :
            LET ok == path \in fs /\ ~remove_raises IN
            /\ fs' = IF ok THEN fs \ {path} ELSE fs
            /\ remove_log' = Append(remove_log, <<path, ok>>)
    /\ cleaned' = cleaned + 1
    /\ UNCHANGED <<window, inputs, pc, exc, file_name_for_error, files_to_process,
                   temp_files_to_clean, file_size, duration_ms, chunk_duration_ms,
                   start_ms, total_size, index, combined_transcriptions,
                   temp_transcription_file, tmp_created, tmp_content,
                   whisper_calls, gemini_calls, signals>>

\* L296-301: run() returns.
Return ==
    /\ pc = "finally"
    /\ cleaned = Len(CleanupList)
    /\ Goto("done")
    /\ UNCHANGED <<window, inputs, locals, env, signals>>

Next ==
    \/ InitClients
    \/ SingleStat
    \/ LoadAudio
    \/ SplitChunk
    \/ ScanSize
    \/ DecideMerge
    \/ MergeFiles
    \/ StartLoop
    \/ TranscribeUnit
    \/ FinishTranscription
    \/ Summarize
    \/ HandleException
    \/ CleanupStep
    \/ Return

Spec == Init /\ [][Next]_vars

\* The same run over inputs that may be copies of one another.
CopiesSpec == InitCopies /\ [][Next]_vars

\* ------------------------------------------------------------- the window
\* L315-319, L504: the window after __init__; no thread exists, and the
\* variables of run() stay as they are here.
WindowInit ==
    /\ app = "running"
    /\ process_button = FALSE
    /\ app_audio_file_paths = <<>>
    /\ app_openai_api_key \in BOOLEAN
    /\ app_gemini_api_key \in BOOLEAN
    /\ transcription_only_checkbox \in BOOLEAN
    /\ summarization_thread = 0
    /\ thread_state = [t \in 1..MaxThreads |-> "unborn"]
    /\ pending = <<>>
    /\ audio_file_paths = <<>>
    /\ sizes = <<>>
    /\ contents = <<>>
    /\ src_duration = 0
    /\ merge_audio = TRUE
    /\ transcription_only = FALSE
    /\ openai_api_key = FALSE
    /\ gemini_api_key = FALSE
    /\ pc = "idle"
    /\ Fresh

\* L599-648: the dialog returns n files (none when cancelled), kept in the
\* order of their creation times; the button follows the selection alone.
select_audio_file ==
    /\ app = "running"
    /\ \E n \in 0..MaxFiles :
        LET file_paths == [i \in 1..n |-> UserPath(i)] IN
        IF file_paths # <<>>
        THEN /\ app_audio_file_paths' = file_paths
             /\ process_button' = TRUE
        ELSE /\ process_button' = FALSE
             /\ app_audio_file_paths' = <<>>
    /\ UNCHANGED <<app, app_openai_api_key, app_gemini_api_key,
                   transcription_only_checkbox, summarization_thread,
                   thread_state, pending>>
    /\ UNCHANGED <<inputs, pc, exc, locals, env, signals>>

\* L441-446: the user flips the transcription-only checkbox.
toggle_transcription_only ==
    /\ app = "running"
    /\ transcription_only_checkbox' = ~transcription_only_checkbox
    /\ UNCHANGED <<app, process_button, app_audio_file_paths, app_openai_api_key,
                   app_gemini_api_key, summarization_thread, thread_state,
                   pending>>
    /\ UNCHANGED <<inputs, pc, exc, locals, env, signals>>

\* L654-678: the checks of start_processing that return early.
MayStart ==
    /\ app_audio_file_paths # <<>>
    /\ app_openai_api_key
    /\ app_gemini_api_key \/ transcription_only_checkbox

\* L651-721: a click on the enabled process button.  Rebinding
\* summarization_thread (L703) drops the only reference to the previous thread:
\* when that thread is still running, Qt may abort the program.
start_processing ==
    /\ app = "running"
    /\ process_button
    /\ IF ~MayStart
       THEN UNCHANGED <<app, process_button, summarization_thread, thread_state>>
       ELSE \E t \in 1..MaxThreads :
            /\ thread_state[t] = "unborn"
            /\ \A u \in 1..(t - 1) : thread_state[u] # "unborn"
            /\ process_button' = FALSE
            /\ summarization_thread' = t
            /\ \E destroyed_while_running \in BOOLEAN :
                IF /\ destroyed_while_running
                   /\ summarization_thread # 0
                   /\ thread_state[summarization_thread] = "running"
                THEN app' = "aborted" /\ UNCHANGED thread_state
                ELSE /\ thread_state' = [thread_state EXCEPT ![t] = "running"]
                     /\ UNCHANGED app
    /\ UNCHANGED <<app_audio_file_paths, app_openai_api_key, app_gemini_api_key,
                   transcription_only_checkbox, pending>>
    /\ UNCHANGED <<inputs, pc, exc, locals, env, signals>>

\* L85-301 as the window sees it: run() of thread t emits summary_finished or
\* error_occurred, queued for the window, and returns.
ThreadRuns ==
    /\ app = "running"
    /\ \E t \in 1..MaxThreads :
        /\ thread_state[t] = "running"
        /\ thread_state' = [thread_state EXCEPT ![t] = "returned"]
        /\ \E signal \in {"summary_finished", "error_occurred"} :
            pending' = Append(pending, <<signal, t>>)
    /\ UNCHANGED <<app, process_button, app_audio_file_paths, app_openai_api_key,
                   app_gemini_api_key, transcription_only_checkbox,
                   summarization_thread>>
    /\ UNCHANGED <<inputs, pc, exc, locals, env, signals>>

\* L723-737: the slot of summary_finished.
display_result ==
    /\ app = "running"
    /\ pending # <<>>
    /\ Head(pending)[1] = "summary_finished"
    /\ pending' = Tail(pending)
    /\ process_button' = TRUE
    /\ UNCHANGED <<app, app_audio_file_paths, app_openai_api_key,
                   app_gemini_api_key, transcription_only_checkbox,
                   summarization_thread, thread_state>>
    /\ UNCHANGED <<inputs, pc, exc, locals, env, signals>>

\* L802-811: the slot of error_occurred.
display_error ==
    /\ app = "running"
    /\ pending # <<>>
    /\ Head(pending)[1] = "error_occurred"
    /\ pending' = Tail(pending)
    /\ process_button' = TRUE
    /\ UNCHANGED <<app, app_audio_file_paths, app_openai_api_key,
                   app_gemini_api_key, transcription_only_checkbox,
                   summarization_thread, thread_state>>
    /\ UNCHANGED <<inputs, pc, exc, locals, env, signals>>

WindowNext ==
    \/ select_audio_file
    \/ toggle_transcription_only
    \/ start_processing
    \/ ThreadRuns
    \/ display_result
    \/ display_error

WindowSpec == WindowInit /\ [][WindowNext]_vars

\* The thread is scheduled until run() returns.
FairSpec == Spec /\ WF_vars(Next)

\* ----------------------------------------------------------------- claims
Single == Len(audio_file_paths) = 1
Batch == Len(audio_file_paths) > 1
CeilDiv(a, b) == (a + b - 1) \div b
InSeq(x, s) == \E i \in 1..Len(s) : s[i] = x
RemovedTimes(path) ==
    Cardinality({j \in 1..Len(remove_log) : remove_log[j] = <<path, TRUE>>})

\* floor(D * ceiling / S) of the single input.
PlannedT == (src_duration * WHISPER_API_LIMIT_BYTES) \div sizes[1]

\* C1 (as claimed): every temporary audio file run() creates is recorded in
\* temp_files_to_clean and has been removed exactly once when run() has
\* returned, on every exit path.
C1_EveryTempFileRecordedAndRemovedOnce ==
    /\ \A k \in 1..Len(tmp_created) : InSeq(tmp_created[k], temp_files_to_clean)
    /\ pc = "done" =>
        \A k \in 1..Len(tmp_created) :
            tmp_created[k] \notin fs /\ RemovedTimes(tmp_created[k]) = 1

\* C2 (as claimed): a single file of size S > ceiling with floor(D*ceiling/S) >= 1
\* is split into ceil(S / ceiling) chunks.
C2_ChunkCountIsCeilOfSizeRatio ==
    (pc = "emit25" /\ Single /\ sizes[1] > WHISPER_API_LIMIT_BYTES /\ PlannedT >= 1)
        => Len(files_to_process) = CeilDiv(sizes[1], WHISPER_API_LIMIT_BYTES)

\* C2 (amended): a single file of size S > ceiling with T = floor(D*ceiling/S) >= 1
\* is split into ceil(D / T) chunks, which is at least ceil(S / ceiling).
C2_ChunkCountIsCeilOfDurationRatio ==
    (pc = "emit25" /\ Single /\ sizes[1] > WHISPER_API_LIMIT_BYTES)
        => /\ PlannedT >= 1
           /\ Len(files_to_process) = CeilDiv(src_duration, PlannedT)
           /\ Len(files_to_process) >= CeilDiv(sizes[1], WHISPER_API_LIMIT_BYTES)

\* The scenario of the claim in the ratio 2.5 (S = 2.5 * ceiling, D = 10): the
\* split is complete with 3 chunks.
C2_Witness ==
    /\ pc = "emit25" /\ Single
    /\ 2 * sizes[1] = 5 * WHISPER_API_LIMIT_BYTES
    /\ src_duration = 10
    /\ Len(files_to_process) = 3

\* C3 (as claimed): a single file of size <= ceiling is not split: no temporary
\* file is created and the units to transcribe are the original path alone.
C3_NoSplitAtOrBelowCeiling ==
    (Single /\ sizes[1] <= WHISPER_API_LIMIT_BYTES)
        => /\ tmp_created = <<>>
           /\ pc \in {"emit25", "loop", "summarize"}
                => files_to_process = <<audio_file_paths[1]>>

\* C4: once the chunk duration floor(D*ceiling/S) of the file to split is zero,
\* run() ends having emitted error_occurred once, with no chunk created and no
\* unit submitted for transcription.
C4_ZeroChunkDurationFails ==
    (pc = "load" /\ PlannedT = 0)
        ~> (/\ pc = "done"
            /\ Len(error_occurred) = 1
            /\ tmp_created = <<>>
            /\ files_to_process = <<>>
            /\ whisper_calls = <<>>)

\* A source of non-zero duration whose chunk duration rounds to zero has made
\* range() raise, and run() has returned.
C4_Witness ==
    /\ pc = "done"
    /\ src_duration > 0
    /\ duration_ms = src_duration
    /\ PlannedT = 0
    /\ exc = "ValueError: range() arg 3 must not be zero"

\* Exceptions raised by a call into the environment (file system, decoder,
\* remote services), as opposed to those run() raises by its own logic.
EnvironmentFailures ==
    {"OSError: getsize", "from_file failed", "mktemp_raises", "export_raises",
     "open_raises", "create_raises", "generate_content failed"}
HasOversized == \E i \in 1..Len(sizes) : sizes[i] > WHISPER_API_LIMIT_BYTES
UnitFailed == exc \in {"open_raises", "create_raises"}
RemoveCalls(path) ==
    Cardinality({j \in 1..Len(remove_log) : remove_log[j][1] = path})
NonDecreasing(s) == \A i, j \in 1..Len(s) : i < j => s[i] <= s[j]

\* C5 (as claimed): in a batch with an oversized file, unless a call into the
\* environment fails, the run ends with the oversized file expanded into chunks
\* and units submitted for transcription.
C5_OversizedBatchFileIsChunked ==
    (Batch /\ HasOversized /\ pc = "done" /\ exc \notin EnvironmentFailures)
        => /\ \E k \in 1..Len(tmp_content) : tmp_content[k][1] = "chunk"
           /\ whisper_calls # <<>>

\* C5 (amended): a batch with an oversized file is rejected: nothing is planned,
\* created or transcribed, and the run ends with error_occurred emitted once,
\* for the oversized file or for a size that could not be read.
C5_OversizedBatchIsRejected ==
    (Batch /\ HasOversized)
        => /\ files_to_process = <<>>
           /\ whisper_calls = <<>>
           /\ summary_finished = 0
           /\ \A k \in 1..Len(tmp_content) : tmp_content[k][1] # "chunk"
           /\ pc \in {"start", "plan", "except", "finally", "done"}
           /\ pc = "done" =>
                /\ Len(error_occurred) = 1
                /\ exc \in {"OSError: getsize",
                            "ValueError: file is larger than 25MB"}

\* The scan has passed a small file, met the oversized one, and run() returned.
C5_Witness ==
    /\ pc = "done" /\ Batch
    /\ index >= 1
    /\ exc = "ValueError: file is larger than 25MB"

\* C6: in a batch with an oversized file the merge step is never reached and no
\* merged unit or merged temporary file exists, whatever the flag and the order.
C6_NoMergeWithOversizedFile ==
    (Batch /\ HasOversized)
        => /\ pc # "merge"
           /\ tmp_created = <<>>
           /\ \A j \in 1..Len(files_to_process) : ~IsTemp(files_to_process[j])

\* Merge enabled, the small files first (their sum under the ceiling), the
\* oversized file last: the scan has rejected the batch.
C6_Witness ==
    /\ pc = "done" /\ Batch /\ merge_audio
    /\ sizes[1] = 1
    /\ sizes[Len(sizes)] > WHISPER_API_LIMIT_BYTES
    /\ index = Len(sizes) - 1
    /\ exc = "ValueError: file is larger than 25MB"

\* C7 (as claimed): when error_occurred has been emitted, the cleanup has
\* already visited every recorded temporary file.
C7_CleanupBeforeErrorReport ==
    error_occurred # <<>> => cleaned = Len(temp_files_to_clean)

\* C8: after the failure of unit k (index = k - 1) the units submitted are the
\* first k - 1 or k planned units, no summarization request is made,
\* summary_finished is not emitted, and error_occurred is emitted once.
C8_UnitFailureAbortsBatch ==
    UnitFailed
        => /\ pc \in {"except", "finally", "done"}
           /\ Len(whisper_calls) \in {index, index + 1}
           /\ whisper_calls = SubSeq(files_to_process, 1, Len(whisper_calls))
           /\ Len(combined_transcriptions) = index
           /\ gemini_calls = 0
           /\ summary_finished = 0
           /\ Len(error_occurred) = IF pc = "except" THEN 0 ELSE 1

\* The request for the second of at least three units failed; run() returned.
C8_Witness ==
    /\ pc = "done"
    /\ exc = "create_raises"
    /\ index = 1
    /\ Len(files_to_process) >= 3

\* C9 (as claimed): after a failed transcription of a chunk, no chunk file
\* exists when run() has returned.
C9_AllChunksRemovedAfterFailure ==
    (pc = "done" /\ Single /\ UnitFailed /\ ~SingleFits(sizes[1]))
        => \A j \in 1..Len(files_to_process) : files_to_process[j] \notin fs

\* C9 (amended): after a failed transcription of a chunk, when run() has
\* returned os.remove has been called exactly once for every chunk file, and a
\* chunk file exists only if that call raised OSError.
C9_AllChunksRemovedUnlessRemoveFails ==
    (pc = "done" /\ Single /\ UnitFailed /\ ~SingleFits(sizes[1]))
        => \A j \in 1..Len(files_to_process) :
            /\ IsTemp(files_to_process[j])
            /\ RemoveCalls(files_to_process[j]) = 1
            /\ files_to_process[j] \in fs
                => InSeq(<<files_to_process[j], FALSE>>, remove_log)

\* Three or more chunks, the second failed: all of them are gone at return.
C9_Witness ==
    /\ pc = "done" /\ Single /\ UnitFailed
    /\ Len(files_to_process) >= 3
    /\ index = 1
    /\ \A j \in 1..Len(files_to_process) : files_to_process[j] \notin fs

\* C10 (as claimed): the progress values are in 0..100 and never decrease.
C10_ProgressMonotone ==
    /\ \A i \in 1..Len(progress) : progress[i] \in 0..100
    /\ NonDecreasing(progress)

\* C10 (amended): the progress values are in 0..100 and never decrease, except
\* that the handler of an error emits a final 0 after error_occurred.
C10_ProgressMonotoneUntilReset ==
    /\ \A i \in 1..Len(progress) : progress[i] \in 0..100
    /\ IF error_occurred = <<>>
       THEN NonDecreasing(progress)
       ELSE /\ progress[Len(progress)] = 0
            /\ NonDecreasing(SubSeq(progress, 1, Len(progress) - 1))

\* An error in the transcription loop after progress was reported for two units.
C10_Witness ==
    /\ pc = "done"
    /\ UnitFailed
    /\ index >= 1
    /\ Len(progress) >= 5

\* The user's files an error of the kind caught is about: the file whose size
\* could not be read, the file to split, the file of the unit in transcription
\* (every input, for the merged unit).
OffendingInputs ==
    IF exc = "OSError: getsize" THEN {audio_file_paths[index + 1]}
    ELSE IF exc \in {"from_file failed",
                     "ValueError: range() arg 3 must not be zero"}
    THEN {audio_file_paths[1]}
    ELSE IF ~IsTemp(files_to_process[index + 1]) THEN {files_to_process[index + 1]}
    ELSE {audio_file_paths[i] : i \in 1..Len(audio_file_paths)}

\* C11 (as claimed): an error that aborts the batch because an input is
\* unreadable, the chunking is infeasible or a transcription fails is reported
\* with the name of the offending input file.
C11_ErrorNamesOffendingInput ==
    (error_occurred # <<>>
        /\ exc \in {"OSError: getsize", "from_file failed",
                    "ValueError: range() arg 3 must not be zero",
                    "open_raises", "create_raises"})
        => error_occurred[1] \in {basename(p) : p \in OffendingInputs}

\* Duration and estimated size of the chunk exported into a temporary file.
ChunkLen(c) == c[2][2] - c[2][1]
IsChunk(c) == c[1] = "chunk"

\* C12: every chunk of a split file has estimated size at most the ceiling:
\* duration * S / D <= ceiling, i.e. duration * S <= ceiling * D.
C12_ChunkEstimatedSizeWithinCeiling ==
    \A k \in 1..Len(tmp_content) :
        IsChunk(tmp_content[k])
            => ChunkLen(tmp_content[k]) * sizes[1]
                    <= WHISPER_API_LIMIT_BYTES * src_duration

\* A file above the ceiling is split completely, in a ratio where the floor of
\* the chunk duration matters (D * ceiling is not a multiple of S).
C12_Witness ==
    /\ pc = "emit25" /\ Single
    /\ sizes[1] > WHISPER_API_LIMIT_BYTES
    /\ (src_duration * WHISPER_API_LIMIT_BYTES) % sizes[1] # 0
    /\ Len(tmp_content) >= 2

\* C13: the chunks made so far are consecutive intervals from 0, each of length
\* T except a last one that ends at D; when the split is complete the last one
\* is non-empty, not longer than T, ends at D, and the durations sum to D.
C13_ChunksPartitionDuration ==
    (Single /\ ~SingleFits(sizes[1]))
        => /\ \A k \in 1..Len(tmp_content) :
                IsChunk(tmp_content[k])
                    => /\ tmp_content[k][2][1] = (k - 1) * PlannedT
                       /\ ChunkLen(tmp_content[k]) > 0
                       /\ ChunkLen(tmp_content[k]) <= PlannedT
                       /\ tmp_content[k][2][2] < src_duration
                            => ChunkLen(tmp_content[k]) = PlannedT
                       /\ (k < Len(tmp_content) /\ IsChunk(tmp_content[k + 1]))
                            => tmp_content[k][2][2] = tmp_content[k + 1][2][1]
           /\ pc = "emit25"
                => /\ Len(tmp_content) >= 1
                   /\ \A k \in 1..Len(tmp_content) : IsChunk(tmp_content[k])
                   /\ tmp_content[Len(tmp_content)][2][2] = src_duration

\* A complete split whose last chunk is shorter than the others.
C13_Witness ==
    /\ pc = "emit25" /\ Single
    /\ Len(tmp_content) >= 3
    /\ ChunkLen(tmp_content[Len(tmp_content)]) < PlannedT

RECURSIVE SumSeq(_)
SumSeq(s) == IF s = <<>> THEN 0 ELSE s[1] + SumSeq(Tail(s))

\* The planning of the units is over: the transcription loop is about to start,
\* is running, or has ended (by itself, or by a failure of a later step).
Planned ==
    \/ pc \in {"emit25", "loop", "summarize"}
    \/ /\ pc \in {"except", "finally", "done"}
       /\ exc \in {"", "open_raises", "create_raises", "generate_content failed"}

\* C14: for a batch whose planning is over, with the merge flag enabled and the
\* sum of the sizes under the ceiling the only unit is one temporary file that
\* holds the inputs concatenated in the caller's order; otherwise the units are
\* the inputs themselves and no temporary file was ever created.
C14_MergeExactlyWhenEligible ==
    Batch
        => IF merge_audio /\ SumSeq(sizes) < WHISPER_API_LIMIT_BYTES
           THEN Planned
                    => /\ tmp_created = <<TempPath(1)>>
                       /\ files_to_process = <<TempPath(1)>>
                       /\ tmp_content = << <<"merged", audio_file_paths>> >>
           ELSE /\ pc # "merge"
                /\ tmp_created = <<>>
                /\ Planned => files_to_process = audio_file_paths

\* Two files of different small sizes, merge enabled: one merged unit is planned.
C14_Witness ==
    /\ pc = "emit25"
    /\ merge_audio
    /\ sizes = <<1, WHISPER_API_LIMIT_BYTES \div 3>>
    /\ Len(files_to_process) = 1
    /\ IsTemp(files_to_process[1])

\* C15: the i-th transcription request, the i-th transcribed text and the i-th
\* part shown are those of the i-th planned unit; the planned units of an
\* unmerged batch are the inputs in their order, those of a split file are its
\* chunks in time order.
C15_TranscriptionFollowsInputOrder ==
    /\ \A i \in 1..Len(whisper_calls) : whisper_calls[i] = files_to_process[i]
    /\ \A i \in 1..Len(combined_transcriptions) :
        /\ combined_transcriptions[i] = files_to_process[i]
        /\ transcription_finished[i][3] = files_to_process[i]
        /\ transcription_finished[i][2] = basename(files_to_process[i])
    /\ Len(transcription_finished) = Len(combined_transcriptions)
    /\ (Batch /\ Planned /\ ~MergeEligible(SumSeq(sizes), merge_audio))
        => \A i \in 1..Len(audio_file_paths) :
            files_to_process[i] = audio_file_paths[i]
    /\ (Single /\ ~SingleFits(sizes[1]))
        => \A i \in 1..Len(files_to_process) :
            /\ files_to_process[i] = tmp_created[i]
            /\ tmp_content[i][2][1] = (i - 1) * PlannedT

\* An unmerged batch of three files has been transcribed completely.
C15_Witness ==
    /\ pc = "summarize"
    /\ Len(audio_file_paths) = 3
    /\ files_to_process = audio_file_paths
    /\ Len(combined_transcriptions) = 3

RemoveFailed == \E j \in 1..Len(remove_log) : ~remove_log[j][2]

\* What a failed os.remove leaves true: the cleanup goes on in the order of
\* temp_files_to_clean, one call per file visited, a successful call removes
\* the file, and exactly one outcome (summary_finished or error_occurred) stays
\* reported.
AbsorbedRemoveFailure ==
    RemoveFailed
        => /\ pc \in {"finally", "done"}
           /\ Len(error_occurred) + summary_finished = 1
           /\ Len(remove_log) = cleaned
           /\ \A j \in 1..Len(remove_log) :
                /\ remove_log[j][1] = temp_files_to_clean[j]
                /\ remove_log[j][2] => remove_log[j][1] \notin fs
           /\ pc = "done" => cleaned = Len(temp_files_to_clean)

\* C16: a failed deletion is absorbed: the other temporary files are still
\* deleted, the outcome reported is neither changed nor duplicated, and run()
\* returns.
C16_RemoveFailureAbsorbed ==
    /\ []AbsorbedRemoveFailure
    /\ RemoveFailed ~> (pc = "done" /\ cleaned = Len(temp_files_to_clean))

\* The first deletion failed, the second succeeded, after a successful run.
C16_Witness ==
    /\ pc = "done"
    /\ summary_finished = 1
    /\ Len(remove_log) >= 2
    /\ ~remove_log[1][2]
    /\ remove_log[2][2]
    /\ remove_log[2][1] \notin fs

\* C19: no input file is ever deleted, recorded in temp_files_to_clean or
\* passed to os.remove: the cleanup only touches temporary files run() created.
C19_CleanupTouchesOnlyOwnFiles ==
    /\ \A i \in 1..Len(audio_file_paths) : audio_file_paths[i] \in fs
    /\ \A j \in 1..Len(temp_files_to_clean) :
        /\ IsTemp(temp_files_to_clean[j])
        /\ InSeq(temp_files_to_clean[j], tmp_created)
        /\ ~InSeq(temp_files_to_clean[j], audio_file_paths)
    /\ \A j \in 1..Len(remove_log) :
        /\ IsTemp(remove_log[j][1])
        /\ ~InSeq(remove_log[j][1], audio_file_paths)

\* An unmerged batch, whose units are the input list itself, was transcribed
\* and run() returned with every input in place.
C19_Witness ==
    /\ pc = "done"
    /\ Batch
    /\ files_to_process = audio_file_paths
    /\ whisper_calls = audio_file_paths
    /\ summary_finished = 1

\* C17: no two requests to the transcription service carry the
\* same bytes.
C17_ContentUploadedAtMostOnce ==
    \A i, j \in 1..Len(whisper_calls) :
        i < j => ~SameBytes(whisper_calls[i], whisper_calls[j])

\* Thread t is in flight: started, and its summary_finished or error_occurred
\* is not delivered yet.
InFlight(t) ==
    \/ thread_state[t] = "running"
    \/ \E k \in 1..Len(pending) : pending[k][2] = t

\* C18: while a run is in flight the process button is disabled, and no second
\* thread runs concurrently with the first.
C18_ButtonDisabledWhileInFlight ==
    /\ (\E t \in 1..MaxThreads : InFlight(t)) => ~process_button
    /\ Cardinality({t \in 1..MaxThreads : thread_state[t] = "running"}) <= 1

====
